---- MODULE Spec2Model ----
(***************************************************************************)
(* Local-first change-synchronization engine of the ERP/CRM application:   *)
(* the sync_queue table (SyncQueue), the capture hook (SyncableMixin),     *)
(* the pusher (SyncService) and the scheduler (SyncManager).               *)
(*                                                                         *)
(* The queue table is durable state shared by every session.  Two callers  *)
(* use the engine: "main" is the Qt event-loop thread that owns the        *)
(* SyncManager, its QTimer and the single-shot startup timer; "worker" is  *)
(* any other caller of the public methods.  A step is one database         *)
(* statement/commit or one remote call; code between two of them runs      *)
(* without interruption.                                                   *)
(***************************************************************************)
EXTENDS Integers, Sequences, FiniteSets, TLC

\* ---------------------------------------------------------------- bounds
MaxQueue == 2
MaxLimit == 2
MaxClock == 2
MaxAge == 1

\* ------------------------------------------------------------- constants
Threads == {"main", "worker"}
NULL == "null"
NoTime == 0
DefaultLimit == 100

\* config.SYNC_AUTO and config.SYNC_ON_STARTUP: their defaults.
SYNC_AUTO == TRUE

SYNC_ON_STARTUP == TRUE

\* The captured mutations: table_name, record_id, operation, data.
\* The mixin passes data = None for a delete and to_dict() otherwise.
Mutations ==
  { [table_name |-> "contacts", record_id |-> "42", operation |-> "create", data |-> "Alice"],
    [table_name |-> "contacts", record_id |-> "7",  operation |-> "update", data |-> "Bob"],
    [table_name |-> "invoices", record_id |-> "7",  operation |-> "delete", data |-> NULL] }

\* What one remote call can do: return rows, return no rows, or raise
\* (network error, timeout, rejection raised by the client).
RemoteOutcomes == {"rows", "empty", "raise"}

Statuses == {"pending", "syncing", "failed", "synced"}

VARIABLES
  enabled,     \* SyncService.is_enabled() of the running process
  timer,       \* the periodic QTimer of SyncManager is active
  startup,     \* the single-shot startup timer is scheduled and has not fired
  is_syncing,  \* SyncManager.is_syncing
  queue,       \* the sync_queue table: id -> row
  now,         \* datetime.utcnow()
  pc,          \* per thread: where it is
  call,        \* per thread: the operation it executes and its arguments
  items,       \* per thread: pending_items of push_pending_changes
  idx,         \* per thread: position of the for loop in pending_items
  upd,         \* per thread: the uncommitted changes of its session to the current item
  stats,       \* per thread: stats of push_pending_changes
  cnt,         \* per thread: the counts get_queue_status has queried so far
  ret,         \* per thread: the is_syncing value get_status has read for its result
  \* history variables (not program state)
  unbacked,    \* ChangeRecords whose domain transaction ended without committing
  hist,        \* per thread: what its batch has done so far (see NoHist)
  span,        \* per thread: <<least, greatest>> number of rows in the table during its status query
  assigned     \* the greatest id ever given to a row (0: none yet)

vars == <<enabled, timer, startup, is_syncing, queue, now, pc, call, items, idx, upd,
          stats, cnt, ret, unbacked, hist, span, assigned>>

\* ------------------------------------------------------------ helpers
Min2(a, b) == IF a < b THEN a ELSE b

MinOf(S) == CHOOSE x \in S : \A y \in S : x <= y

MaxOf(S) == CHOOSE x \in S : \A y \in S : x >= y

RECURSIVE Ascending(_)
Ascending(S) == IF S = {} THEN <<>> ELSE <<MinOf(S)>> \o Ascending(S \ {MinOf(S)})

Range(s) == {s[i] : i \in 1..Len(s)}

ZeroStats == [pushed |-> 0, failed |-> 0, skipped |-> 0]

ZeroCnt == [pending |-> 0, syncing |-> 0, failed |-> 0, synced |-> 0]

NoCall == [op |-> "none", limit |-> 0]

\* History of one batch: the ids it pushed to the remote, the ids that were
\* pending when it selected, whether another batch was in progress during it,
\* whether it left the loop through the outer except, whether stop() was
\* called during it.
NoHist == [attempted |-> {}, selP |-> {}, overlap |-> FALSE, aborted |-> FALSE,
           stopped |-> FALSE]

NoUpd == [ok |-> FALSE, retry_count |-> 0, synced_at |-> NoTime]

NoRet == FALSE

NoSpan == <<0, 0>>

\* Column defaults of a new SyncQueue row.
NewRow(m, t) ==
  [table_name |-> m.table_name, record_id |-> m.record_id, operation |-> m.operation,
   data |-> m.data, status |-> "pending", retry_count |-> 0, error_message |-> NULL,
   created_at |-> t, synced_at |-> NoTime]

\* INTEGER PRIMARY KEY: the next rowid.
NextId(q) == IF DOMAIN q = {} THEN 1 ELSE MaxOf(DOMAIN q) + 1

Insert(q, row) ==
  [i \in DOMAIN q \cup {NextId(q)} |-> IF i \in DOMAIN q THEN q[i] ELSE row]

CountStatus(q, s) == Cardinality({i \in DOMAIN q : q[i].status = s})

TrueCounts(q) ==
  [pending |-> CountStatus(q, "pending"), syncing |-> CountStatus(q, "syncing"),
   failed |-> CountStatus(q, "failed"), synced |-> CountStatus(q, "synced")]

PendingIds(q) == {i \in DOMAIN q : q[i].status = "pending"}

\* Mutant of SelectPending: the query without its LIMIT.
SelectAllPending(q, limit) == {Ascending(PendingIds(q))}

\* Mutant of SelectPending: the query without its status filter.
SelectAnyStatus(q, limit) ==
  LET s == Ascending(DOMAIN q) IN {SubSeq(s, 1, Min2(limit, Len(s)))}

\* db.query(SyncQueue).filter(status == "pending").limit(limit).all()
\* The query has no ORDER BY: the database may return any min(limit, P) of the
\* P pending rows, in any order.  The results it can return:
SelectPending(q, limit) ==
  LET n == Min2(limit, Cardinality(PendingIds(q)))
  IN {s \in [1..n -> PendingIds(q)] : \A i, j \in 1..n : s[i] = s[j] => i = j}

\* _push_item: the result for an operation and what the remote call did.
PushItem(operation, outcome) ==
  IF outcome = "raise" THEN FALSE
  ELSE IF operation \in {"create", "update"} THEN outcome = "rows"
  ELSE IF operation = "delete" THEN TRUE
  ELSE FALSE

BatchPcs == {"select", "mark", "push", "commit", "handler"}

CountPcs == {"c_pending", "c_syncing", "c_failed", "c_synced"}

InBatch(t) == pc[t] \in BatchPcs

CurId(t) == items[t][idx[t]]

\* History: the least and the greatest number of rows the table holds while a
\* status query is in progress (kept until the query's caller has its result),
\* and the greatest id an INSERT has been given so far.
Track ==
  /\ span' = [t \in Threads |->
                LET n == Cardinality(DOMAIN queue') IN
                IF pc'[t] \in CountPcs
                THEN IF pc[t] \in CountPcs
                     THEN <<Min2(span[t][1], n), IF n > span[t][2] THEN n ELSE span[t][2]>>
                     ELSE <<n, n>>
                ELSE IF pc'[t] = "done" /\ pc[t] \in CountPcs \cup {"done"} THEN span[t]
                ELSE NoSpan]
  /\ assigned' = LET new == DOMAIN queue' \ DOMAIN queue
                 IN IF new # {} /\ MaxOf(new) > assigned THEN MaxOf(new) ELSE assigned

\* ------------------------------------------------------------------ Init
Init ==
  /\ enabled \in BOOLEAN
  /\ timer = (SYNC_AUTO /\ enabled)
  /\ startup = SYNC_ON_STARTUP
  /\ is_syncing = FALSE
  /\ queue = <<>>
  /\ now = 1
  /\ pc = [t \in Threads |-> "idle"]
  /\ call = [t \in Threads |-> NoCall]
  /\ items = [t \in Threads |-> <<>>]
  /\ idx = [t \in Threads |-> 0]
  /\ upd = [t \in Threads |-> NoUpd]
  /\ stats = [t \in Threads |-> ZeroStats]
  /\ cnt = [t \in Threads |-> ZeroCnt]
  /\ ret = [t \in Threads |-> NoRet]
  /\ unbacked = 0
  /\ hist = [t \in Threads |-> NoHist]
  /\ span = [t \in Threads |-> NoSpan]
  /\ assigned = 0

\* ------------------------------------------------- capture (SyncableMixin)
\* Mutant of AddToQueue: the row is added also when the engine is disabled.
AddToQueueAlways(q, m, t) == Insert(q, NewRow(m, t))

\* Mutant of AddToQueue: the row is added twice.
AddToQueueTwice(q, m, t) ==
  IF enabled THEN Insert(Insert(q, NewRow(m, t)), NewRow(m, t)) ELSE q

\* add_to_queue, lines 63-80: nothing when disabled; else one INSERT, committed
\* in a session of its own.
AddToQueue(q, m, t) == IF enabled THEN Insert(q, NewRow(m, t)) ELSE q

\* A domain session flushes mutation m; the mapper hook after_insert /
\* after_update / after_delete runs inside that flush and calls
\* add_to_sync_queue, which calls add_to_queue.  The domain transaction then
\* commits (commits) or is rolled back or lost in a crash (~commits); no
\* other session can tell the two apart, so this is one step.
DomainWrite(t, m, commits) ==
  /\ t = "worker"
  /\ pc[t] = "idle"
  /\ NextId(queue) <= MaxQueue
  /\ queue' = AddToQueue(queue, m, now)
  /\ unbacked' = IF enabled /\ ~commits THEN unbacked + 1 ELSE unbacked
  /\ UNCHANGED <<enabled, timer, startup, is_syncing, now, pc, call, items, idx, upd,
                 stats, cnt, ret, hist>>
  /\ Track

\* ------------------------------------------------ scheduler (SyncManager)
\* Mutant of Sync: sync() without its is_enabled() check.
SyncUnguarded(t, force) ==
  IF is_syncing /\ ~force THEN UNCHANGED <<is_syncing, pc, call>>
  ELSE /\ is_syncing' = TRUE
       /\ pc' = [pc EXCEPT ![t] = "select"]
       /\ call' = [call EXCEPT ![t] =
                     [NoCall EXCEPT !.op = "sync", !.limit = DefaultLimit]]

\* SyncManager.sync, lines 44-52: the guards and the setting of the flag.
Sync(t, force) ==
  IF ~enabled THEN UNCHANGED <<is_syncing, pc, call>>
  ELSE IF is_syncing /\ ~force THEN UNCHANGED <<is_syncing, pc, call>>
  ELSE /\ is_syncing' = TRUE
       /\ pc' = [pc EXCEPT ![t] = "select"]
       /\ call' = [call EXCEPT ![t] =
                     [NoCall EXCEPT !.op = "sync", !.limit = DefaultLimit]]

\* timer.timeout -> sync(): a periodic tick, in the thread that owns the timer.
Tick(t) ==
  /\ t = "main" /\ timer
  /\ pc[t] = "idle"
  /\ Sync(t, FALSE)
  /\ UNCHANGED <<enabled, timer, startup, queue, now, items, idx, upd, stats, cnt, ret,
                 unbacked, hist>>
  /\ Track

\* QTimer.singleShot(5000, self.sync_now): the startup sync.
StartupSync(t) ==
  /\ t = "main" /\ startup
  /\ pc[t] = "idle"
  /\ startup' = FALSE
  /\ Sync(t, TRUE)
  /\ UNCHANGED <<enabled, timer, queue, now, items, idx, upd, stats, cnt, ret,
                 unbacked, hist>>
  /\ Track

\* sync_now(): the manual trigger.
SyncNow(t) ==
  /\ t = "worker"
  /\ pc[t] = "idle"
  /\ Sync(t, TRUE)
  /\ UNCHANGED <<enabled, timer, startup, queue, now, items, idx, upd, stats, cnt, ret,
                 unbacked, hist>>
  /\ Track

\* Mutant of Stop: stop() also abandons the batches in flight.
StopCancels(t) ==
  /\ t = "main"
  /\ pc[t] = "idle"
  /\ timer
  /\ timer' = FALSE
  /\ pc' = [u \in Threads |-> IF InBatch(u) THEN "idle" ELSE pc[u]]
  /\ hist' = [u \in Threads |->
                IF InBatch(u) THEN [hist[u] EXCEPT !.stopped = TRUE] ELSE hist[u]]
  /\ UNCHANGED <<enabled, startup, is_syncing, queue, now, call, items, idx, upd, stats,
                 cnt, ret, unbacked>>
  /\ Track

\* stop(): stops the periodic timer.
Stop(t) ==
  /\ t = "main"
  /\ pc[t] = "idle"
  /\ timer
  /\ timer' = FALSE
  /\ hist' = [u \in Threads |->
                IF InBatch(u) THEN [hist[u] EXCEPT !.stopped = TRUE] ELSE hist[u]]
  /\ UNCHANGED <<enabled, startup, is_syncing, queue, now, pc, call, items, idx, upd, stats,
                 cnt, ret, unbacked>>
  /\ Track

\* ---------------------------------------------------- pusher (SyncService)
\* A direct call push_pending_changes(limit).
PushCall(t, limit) ==
  /\ t = "worker"
  /\ pc[t] = "idle"
  /\ pc' = [pc EXCEPT ![t] = "select"]
  /\ call' = [call EXCEPT ![t] = [NoCall EXCEPT !.op = "push", !.limit = limit]]
  /\ UNCHANGED <<enabled, timer, startup, is_syncing, queue, now, items, idx, upd, stats,
                 cnt, ret, unbacked, hist>>
  /\ Track

\* push_pending_changes has left its loop with stats st: a direct call returns
\* them; sync() goes on to get_queue_status.
AfterLoop(t, st) ==
  IF call[t].op = "sync"
  THEN /\ pc' = [pc EXCEPT ![t] = "c_pending"]
       /\ cnt' = [cnt EXCEPT ![t] = ZeroCnt]
       /\ ret' = ret
  ELSE /\ pc' = [pc EXCEPT ![t] = "done"]
       /\ cnt' = cnt
       /\ ret' = ret

\* Mutant of Advance: the loop ends at the first item whose push failed.
AdvanceUnlessFailed(t, st) ==
  IF upd[t].ok /\ idx[t] < Len(items[t])
  THEN /\ pc' = [pc EXCEPT ![t] = "mark"]
       /\ idx' = [idx EXCEPT ![t] = @ + 1]
       /\ UNCHANGED <<cnt, ret>>
  ELSE /\ idx' = idx
       /\ AfterLoop(t, st)

\* The for loop goes to the next item, or ends (return stats, line 141).
Advance(t, st) ==
  IF idx[t] < Len(items[t])
  THEN /\ pc' = [pc EXCEPT ![t] = "mark"]
       /\ idx' = [idx EXCEPT ![t] = @ + 1]
       /\ UNCHANGED <<cnt, ret>>
  ELSE /\ idx' = idx
       /\ AfterLoop(t, st)

\* Lines 98-108: the enabled check and the query of the pending items.
Select(t) ==
  /\ pc[t] = "select"
  /\ IF ~enabled
     THEN /\ UNCHANGED <<items, idx, hist>>
          /\ AfterLoop(t, ZeroStats)
     ELSE \E its \in SelectPending(queue, call[t].limit) :
          /\ items' = [items EXCEPT ![t] = its]
          /\ hist' = [u \in Threads |->
                        IF u = t
                        THEN [NoHist EXCEPT !.selP = PendingIds(queue),
                                            !.overlap = \E v \in Threads \ {t} : InBatch(v)]
                        ELSE IF InBatch(u) THEN [hist[u] EXCEPT !.overlap = TRUE]
                        ELSE hist[u]]
          /\ IF its = <<>>
             THEN /\ idx' = idx
                  /\ AfterLoop(t, ZeroStats)
             ELSE /\ idx' = [idx EXCEPT ![t] = 1]
                  /\ pc' = [pc EXCEPT ![t] = "mark"]
                  /\ UNCHANGED <<cnt, ret>>
  /\ stats' = [stats EXCEPT ![t] = ZeroStats]
  /\ call' = [call EXCEPT ![t].limit = 0]
  /\ UNCHANGED <<enabled, timer, startup, is_syncing, queue, now, upd,
                 unbacked>>
  /\ Track

\* Lines 113-114: item.status = "syncing"; db.commit().  The commit writes the
\* row (ok) or raises (~ok), which enters the except branch.
Mark(t, ok) ==
  /\ pc[t] = "mark"
  /\ IF ok /\ CurId(t) \in DOMAIN queue
     THEN /\ queue' = [queue EXCEPT ![CurId(t)].status = "syncing"]
          /\ pc' = [pc EXCEPT ![t] = "push"]
     ELSE /\ queue' = queue
          /\ pc' = [pc EXCEPT ![t] = "handler"]
  /\ UNCHANGED <<enabled, timer, startup, is_syncing, now, call, items, idx, upd, stats,
                 cnt, ret, unbacked, hist>>
  /\ Track

\* Mutant of Push: _push_item without its try/except, and no handler above
\* it: an exception of the remote call leaves the call ("raised").
PushUncaught(t, o) ==
  /\ pc[t] = "push"
  /\ CurId(t) \in DOMAIN queue
  /\ LET row == queue[CurId(t)]
         success == PushItem(row.operation, o)
     IN /\ upd' = [upd EXCEPT ![t] =
                     IF success
                     THEN [ok |-> TRUE, retry_count |-> row.retry_count, synced_at |-> now]
                     ELSE [ok |-> FALSE, retry_count |-> row.retry_count + 1,
                           synced_at |-> row.synced_at]]
        /\ stats' = [stats EXCEPT ![t] =
                       IF success THEN [@ EXCEPT !.pushed = @ + 1]
                       ELSE [@ EXCEPT !.failed = @ + 1]]
  /\ hist' = [hist EXCEPT ![t].attempted = @ \cup {CurId(t)}]
  /\ pc' = [pc EXCEPT ![t] = IF o = "raise" THEN "raised" ELSE "commit"]
  /\ UNCHANGED <<enabled, timer, startup, is_syncing, queue, now, call, items, idx,
                 cnt, ret, unbacked>>
  /\ Track

\* Lines 117-128: _push_item reloads the expired row and makes the remote
\* call with outcome o; the session then holds the uncommitted outcome.
Push(t, o) ==
  /\ pc[t] = "push"
  /\ CurId(t) \in DOMAIN queue
  /\ LET row == queue[CurId(t)]
         success == PushItem(row.operation, o)
     IN /\ upd' = [upd EXCEPT ![t] =
                     IF success
                     THEN [ok |-> TRUE, retry_count |-> row.retry_count, synced_at |-> now]
                     ELSE [ok |-> FALSE, retry_count |-> row.retry_count + 1,
                           synced_at |-> row.synced_at]]
        /\ stats' = [stats EXCEPT ![t] =
                       IF success THEN [@ EXCEPT !.pushed = @ + 1]
                       ELSE [@ EXCEPT !.failed = @ + 1]]
  /\ hist' = [hist EXCEPT ![t].attempted = @ \cup {CurId(t)}]
  /\ pc' = [pc EXCEPT ![t] = "commit"]
  /\ UNCHANGED <<enabled, timer, startup, is_syncing, queue, now, call, items, idx,
                 cnt, ret, unbacked>>
  /\ Track

\* Mutant of Outcome: a success does not write synced_at.
OutcomeWithoutSyncedAt(row, u) ==
  IF u.ok THEN [row EXCEPT !.status = "synced"]
  ELSE [row EXCEPT !.status = "failed", !.retry_count = u.retry_count]

\* Mutant of Outcome: a failure does not write retry_count.
OutcomeWithoutRetry(row, u) ==
  IF u.ok THEN [row EXCEPT !.status = "synced", !.synced_at = u.synced_at]
  ELSE [row EXCEPT !.status = "failed"]

\* The UPDATE that line 130 flushes: the columns the session changed.
Outcome(row, u) ==
  IF u.ok THEN [row EXCEPT !.status = "synced", !.synced_at = u.synced_at]
  ELSE [row EXCEPT !.status = "failed", !.retry_count = u.retry_count]

\* Line 130: db.commit() of the outcome, or it raises into the except branch.
Commit(t, ok) ==
  /\ pc[t] = "commit"
  /\ IF ok /\ CurId(t) \in DOMAIN queue
     THEN /\ queue' = [queue EXCEPT ![CurId(t)] = Outcome(@, upd[t])]
          /\ Advance(t, stats[t])
     ELSE /\ queue' = queue
          /\ pc' = [pc EXCEPT ![t] = "handler"]
          /\ UNCHANGED <<idx, cnt, ret>>
  /\ upd' = [upd EXCEPT ![t] = NoUpd]
  /\ UNCHANGED <<enabled, timer, startup, is_syncing, now, call, items, stats,
                 unbacked, hist>>
  /\ Track

\* Mutant of Failure: the except branch stores the error in the payload column.
FailureOverwritesData(row) ==
  [row EXCEPT !.status = "failed", !.retry_count = @ + 1, !.data = "error"]

\* The UPDATE of the except branch, lines 133-139, on the row as reloaded after the rollback.
Failure(row) ==
  [row EXCEPT !.status = "failed", !.retry_count = @ + 1, !.error_message = "error"]

\* Lines 132-139: rollback, mark failed, commit; when this commit raises too,
\* the exception leaves the loop and the outer except returns stats (~ok).
\* When the row is gone, line 135 cannot reload it and raises before the
\* failure is counted.
Handler(t, ok) ==
  /\ pc[t] = "handler"
  /\ IF CurId(t) \notin DOMAIN queue
     THEN /\ stats' = stats
          /\ queue' = queue
          /\ hist' = [hist EXCEPT ![t].aborted = TRUE]
          /\ idx' = idx
          /\ AfterLoop(t, stats'[t])
     ELSE /\ stats' = [stats EXCEPT ![t].failed = @ + 1]
          /\ IF ok
             THEN /\ queue' = [queue EXCEPT ![CurId(t)] = Failure(@)]
                  /\ hist' = hist
                  /\ Advance(t, stats'[t])
             ELSE /\ queue' = queue
                  /\ hist' = [hist EXCEPT ![t].aborted = TRUE]
                  /\ idx' = idx
                  /\ AfterLoop(t, stats'[t])
  /\ UNCHANGED <<enabled, timer, startup, is_syncing, now, call, items, upd,
                 unbacked>>
  /\ Track

\* ------------------------------------------------------- status reporter
WithTotal(c) ==
  [pending |-> c.pending, syncing |-> c.syncing, failed |-> c.failed, synced |-> c.synced,
   total |-> c.pending + c.syncing + c.failed + c.synced]

\* SyncManager.get_status, lines 76-79.
GetStatus(t) ==
  /\ t = "main"
  /\ pc[t] = "idle"
  /\ IF ~enabled
     THEN /\ pc' = [pc EXCEPT ![t] = "done"]
          /\ cnt' = cnt
     ELSE /\ pc' = [pc EXCEPT ![t] = "c_pending"]
          /\ cnt' = [cnt EXCEPT ![t] = ZeroCnt]
  /\ call' = [call EXCEPT ![t] = [NoCall EXCEPT !.op = "status"]]
  /\ ret' = ret
  /\ UNCHANGED <<enabled, timer, startup, is_syncing, queue, now, items, idx, upd, stats,
                 unbacked, hist>>
  /\ Track

\* get_queue_status, lines 207-209: one count query.
CountQuery(t, s, nextpc) ==
  /\ pc[t] = "c_" \o s
  /\ cnt' = [cnt EXCEPT ![t][s] = CountStatus(queue, s)]
  /\ pc' = [pc EXCEPT ![t] = nextpc]
  /\ UNCHANGED <<enabled, timer, startup, is_syncing, queue, now, call, items, idx, upd,
                 stats, ret, unbacked, hist>>
  /\ Track

\* The first count query; the locals of push_pending_changes are gone.
CountPending(t) ==
  /\ pc[t] = "c_pending"
  /\ cnt' = [cnt EXCEPT ![t].pending = CountStatus(queue, "pending")]
  /\ pc' = [pc EXCEPT ![t] = "c_syncing"]
  /\ items' = [items EXCEPT ![t] = <<>>]
  /\ idx' = [idx EXCEPT ![t] = 0]
  /\ hist' = [hist EXCEPT ![t] = NoHist]
  /\ UNCHANGED <<enabled, timer, startup, is_syncing, queue, now, call, upd,
                 stats, ret, unbacked>>
  /\ Track

CountSyncing(t) == CountQuery(t, "syncing", "c_failed")

CountFailed(t) == CountQuery(t, "failed", "c_synced")

\* Line 210 and the return.  In sync(), lines 60-68 follow: the signal is
\* emitted with the status and the stats (Signal), and finally resets
\* is_syncing.  In get_status, lines 80-82 follow (StatusResult).
CountSynced(t) ==
  /\ pc[t] = "c_synced"
  /\ cnt' = [cnt EXCEPT ![t].synced = CountStatus(queue, "synced")]
  /\ pc' = [pc EXCEPT ![t] = "done"]
  /\ IF call[t].op = "sync"
     THEN /\ ret' = ret
          /\ is_syncing' = FALSE
     ELSE /\ ret' = [ret EXCEPT ![t] = is_syncing]
          /\ is_syncing' = is_syncing
  /\ UNCHANGED <<enabled, timer, startup, queue, now, call, items, idx, upd,
                 stats, unbacked, hist>>
  /\ Track

\* sync(), lines 59-68, with the four count queries of get_queue_status taken
\* together: they only read, so every state another session can reach between
\* them it can also reach before them; only the counts themselves differ from
\* those of CountPending .. CountSynced.
SyncFinish(t) ==
  /\ pc[t] = "c_pending"
  /\ call[t].op = "sync"
  /\ cnt' = [cnt EXCEPT ![t] = TrueCounts(queue)]
  /\ is_syncing' = FALSE
  /\ pc' = [pc EXCEPT ![t] = "done"]
  /\ items' = [items EXCEPT ![t] = <<>>]
  /\ idx' = [idx EXCEPT ![t] = 0]
  /\ hist' = [hist EXCEPT ![t] = NoHist]
  /\ UNCHANGED <<enabled, timer, startup, queue, now, call, upd, stats, ret, unbacked>>
  /\ Track

\* Mutant of SyncRaise: sync() without its finally clause.
SyncRaiseNoFinally(t) ==
  /\ pc[t] \in {"select", "c_pending"}
  /\ call[t].op = "sync"
  /\ call' = [call EXCEPT ![t] = [NoCall EXCEPT !.op = "raised"]]
  /\ is_syncing' = is_syncing
  /\ pc' = [pc EXCEPT ![t] = "done"]
  /\ items' = [items EXCEPT ![t] = <<>>]
  /\ idx' = [idx EXCEPT ![t] = 0]
  /\ hist' = [hist EXCEPT ![t] = NoHist]
  /\ UNCHANGED <<enabled, timer, startup, queue, now, upd, stats, cnt, ret, unbacked>>
  /\ Track

\* sync(), lines 65-68: an exception leaves push_pending_changes (its
\* SessionLocal() at line 102 or its db.close() at line 147 raised) or
\* get_queue_status (a count query raised; it has no except clause).  The
\* except clause logs it, nothing is emitted, finally resets is_syncing.
SyncRaise(t) ==
  /\ pc[t] \in {"select", "c_pending"}
  /\ call[t].op = "sync"
  /\ call' = [call EXCEPT ![t] = [NoCall EXCEPT !.op = "raised"]]
  /\ is_syncing' = FALSE
  /\ pc' = [pc EXCEPT ![t] = "done"]
  /\ items' = [items EXCEPT ![t] = <<>>]
  /\ idx' = [idx EXCEPT ![t] = 0]
  /\ hist' = [hist EXCEPT ![t] = NoHist]
  /\ UNCHANGED <<enabled, timer, startup, queue, now, upd, stats, cnt, ret, unbacked>>
  /\ Track

\* sync() has emitted sync_status_changed and returned.
Emitted(t) == pc[t] = "done" /\ call[t].op = "sync"

\* What a finished call (pc = "done") hands to its caller.
\* push_pending_changes: the stats.
BatchResult(t) == stats[t]

\* sync(): the dict sync_status_changed emits; status.update(stats) replaces
\* the failed count of the status by the failed count of the stats.
Signal(t) ==
  [pending |-> cnt[t].pending, syncing |-> cnt[t].syncing, failed |-> stats[t].failed,
   synced |-> cnt[t].synced, total |-> WithTotal(cnt[t]).total,
   pushed |-> stats[t].pushed, skipped |-> stats[t].skipped]

\* get_queue_status: the counts and their sum.
StatusResult(t) == WithTotal(cnt[t])

\* The finished call returns to its caller; its locals are gone.
Return(t) ==
  /\ pc[t] = "done"
  /\ pc' = [pc EXCEPT ![t] = "idle"]
  /\ call' = [call EXCEPT ![t] = NoCall]
  /\ items' = [items EXCEPT ![t] = <<>>]
  /\ idx' = [idx EXCEPT ![t] = 0]
  /\ upd' = [upd EXCEPT ![t] = NoUpd]
  /\ stats' = [stats EXCEPT ![t] = ZeroStats]
  /\ cnt' = [cnt EXCEPT ![t] = ZeroCnt]
  /\ ret' = [ret EXCEPT ![t] = NoRet]
  /\ hist' = [hist EXCEPT ![t] = NoHist]
  /\ UNCHANGED <<enabled, timer, startup, is_syncing, queue, now, unbacked>>
  /\ Track

\* ------------------------------------------------------- retention sweep
\* Mutant of Sweep: every synced row is deleted, whatever its age.
SweepAllSynced(t, d) ==
  /\ t = "worker"
  /\ pc[t] = "idle"
  /\ queue' = [i \in {j \in DOMAIN queue : queue[j].status # "synced"} |-> queue[i]]
  /\ UNCHANGED <<enabled, timer, startup, is_syncing, now, pc, call, items, idx, upd,
                 stats, cnt, ret, unbacked, hist>>
  /\ Track

\* clear_synced_items(older_than_days = d), lines 224-233: one DELETE of the
\* rows with status = 'synced' AND synced_at < utcnow() - d, and its commit.
\* A NULL synced_at compares as unknown: such a row is not deleted.
Sweep(t, d) ==
  /\ t = "worker"
  /\ pc[t] = "idle"
  /\ LET cutoff_date == now - d
         deleted == {i \in DOMAIN queue : /\ queue[i].status = "synced"
                                          /\ queue[i].synced_at # NoTime
                                          /\ queue[i].synced_at < cutoff_date}
     IN queue' = [i \in DOMAIN queue \ deleted |-> queue[i]]
  /\ UNCHANGED <<enabled, timer, startup, is_syncing, now, pc, call, items, idx, upd,
                 stats, cnt, ret, unbacked, hist>>
  /\ Track

\* ------------------------------------------------------------ environment
\* Time passes: datetime.utcnow() grows.
ClockTick ==
  /\ now < MaxClock
  /\ now' = now + 1
  /\ UNCHANGED <<enabled, timer, startup, is_syncing, queue, pc, call, items, idx, upd,
                 stats, cnt, ret, unbacked, hist>>
  /\ Track

\* The process exits or crashes and is started again (main.py): every call in
\* flight is abandoned, the configuration is read anew, the table persists.
Restart(e) ==
  /\ enabled' = e
  /\ timer' = (SYNC_AUTO /\ e)
  /\ startup' = SYNC_ON_STARTUP
  /\ is_syncing' = FALSE
  /\ pc' = [t \in Threads |-> "idle"]
  /\ call' = [t \in Threads |-> NoCall]
  /\ items' = [t \in Threads |-> <<>>]
  /\ idx' = [t \in Threads |-> 0]
  /\ upd' = [t \in Threads |-> NoUpd]
  /\ stats' = [t \in Threads |-> ZeroStats]
  /\ cnt' = [t \in Threads |-> ZeroCnt]
  /\ ret' = [t \in Threads |-> NoRet]
  /\ hist' = [t \in Threads |-> NoHist]
  /\ UNCHANGED <<queue, now, unbacked>>
  /\ Track

\* Scheduler, pusher and capture in one running process.  The local store
\* accepts every commit, every domain transaction commits, and sync() queries
\* the status in one step.
Next ==
  \/ \E t \in Threads, m \in Mutations : DomainWrite(t, m, TRUE)
  \/ \E t \in Threads : Tick(t)
  \/ \E t \in Threads : StartupSync(t)
  \/ \E t \in Threads : SyncNow(t)
  \/ \E t \in Threads, limit \in 1..MaxLimit : PushCall(t, limit)
  \/ \E t \in Threads : Select(t)
  \/ \E t \in Threads : Mark(t, TRUE)
  \/ \E t \in Threads, o \in RemoteOutcomes : Push(t, o)
  \/ \E t \in Threads : Commit(t, TRUE)
  \/ \E t \in Threads : SyncFinish(t)
  \/ \E t \in Threads : Return(t)

Spec == Init /\ [][Next]_vars

\* Capture with domain transactions that commit or roll back, restarts of the
\* process with sync enabled or disabled, and batches.
NextCapture ==
  \/ \E t \in Threads, m \in Mutations, commits \in BOOLEAN : DomainWrite(t, m, commits)
  \/ \E e \in BOOLEAN : Restart(e)
  \/ \E t \in Threads : Tick(t)
  \/ \E t \in Threads, limit \in 1..MaxLimit : PushCall(t, limit)
  \/ \E t \in Threads : Select(t)
  \/ \E t \in Threads : Mark(t, TRUE)
  \/ \E t \in Threads, o \in RemoteOutcomes : Push(t, o)
  \/ \E t \in Threads : Commit(t, TRUE)
  \/ \E t \in Threads : SyncFinish(t)
  \/ \E t \in Threads : Return(t)

SpecCapture == Init /\ [][NextCapture]_vars

\* The status queries of get_status and of sync() run query by query, beside
\* captures and batches.
NextStatus ==
  \/ \E t \in Threads, m \in Mutations : DomainWrite(t, m, TRUE)
  \/ \E t \in Threads : Tick(t)
  \/ \E t \in Threads : SyncNow(t)
  \/ \E t \in Threads : Select(t)
  \/ \E t \in Threads : Mark(t, TRUE)
  \/ \E t \in Threads, o \in RemoteOutcomes : Push(t, o)
  \/ \E t \in Threads : Commit(t, TRUE)
  \/ \E t \in Threads : GetStatus(t)
  \/ \E t \in Threads : CountPending(t)
  \/ \E t \in Threads : CountSyncing(t)
  \/ \E t \in Threads : CountFailed(t)
  \/ \E t \in Threads : CountSynced(t)
  \/ \E t \in Threads : Return(t)

SpecStatus == Init /\ [][NextStatus]_vars

\* The scheduler with stop(): ticks, the startup sync and manual triggers,
\* beside captures.
NextSched ==
  \/ \E t \in Threads, m \in Mutations : DomainWrite(t, m, TRUE)
  \/ \E t \in Threads : Tick(t)
  \/ \E t \in Threads : StartupSync(t)
  \/ \E t \in Threads : SyncNow(t)
  \/ \E t \in Threads : Stop(t)
  \/ \E t \in Threads : Select(t)
  \/ \E t \in Threads : Mark(t, TRUE)
  \/ \E t \in Threads, o \in RemoteOutcomes : Push(t, o)
  \/ \E t \in Threads : Commit(t, TRUE)
  \/ \E t \in Threads : SyncFinish(t)
  \/ \E t \in Threads : Return(t)

SpecSched == Init /\ [][NextSched]_vars

\* The retention sweep beside captures, the batches of the periodic timer
\* and the passing of time.
NextSweep ==
  \/ \E t \in Threads, m \in Mutations : DomainWrite(t, m, TRUE)
  \/ ClockTick
  \/ \E t \in Threads, d \in 0..MaxAge : Sweep(t, d)
  \/ \E t \in Threads : Tick(t)
  \/ \E t \in Threads : Select(t)
  \/ \E t \in Threads : Mark(t, TRUE)
  \/ \E t \in Threads, o \in RemoteOutcomes : Push(t, o)
  \/ \E t \in Threads : Commit(t, TRUE)
  \/ \E t \in Threads : SyncFinish(t)
  \/ \E t \in Threads : Return(t)

SpecSweep == Init /\ [][NextSweep]_vars

\* One batch at a time, started by the periodic timer, on a local store whose
\* commits and queries can raise (database locked, disk full, I/O error).
NextFault ==
  \/ \E t \in Threads, m \in Mutations : DomainWrite(t, m, TRUE)
  \/ ClockTick
  \/ \E t \in Threads : Tick(t)
  \/ \E t \in Threads : Select(t)
  \/ \E t \in Threads, ok \in BOOLEAN : Mark(t, ok)
  \/ \E t \in Threads, o \in RemoteOutcomes : Push(t, o)
  \/ \E t \in Threads, ok \in BOOLEAN : Commit(t, ok)
  \/ \E t \in Threads, ok \in BOOLEAN : Handler(t, ok)
  \/ \E t \in Threads : SyncFinish(t)
  \/ \E t \in Threads : SyncRaise(t)
  \/ \E t \in Threads : Return(t)

SpecFault == Init /\ [][NextFault]_vars

\* Every trigger of a batch in a process that is restarted with sync enabled
\* or disabled, so that a disabled engine can hold records captured earlier.
NextTrig ==
  \/ \E t \in Threads, m \in Mutations : DomainWrite(t, m, TRUE)
  \/ \E e \in BOOLEAN : Restart(e)
  \/ \E t \in Threads : Tick(t)
  \/ \E t \in Threads : StartupSync(t)
  \/ \E t \in Threads : SyncNow(t)
  \/ \E t \in Threads, limit \in 1..MaxLimit : PushCall(t, limit)
  \/ \E t \in Threads : Select(t)
  \/ \E t \in Threads : Mark(t, TRUE)
  \/ \E t \in Threads, o \in RemoteOutcomes : Push(t, o)
  \/ \E t \in Threads : Commit(t, TRUE)
  \/ \E t \in Threads : SyncFinish(t)
  \/ \E t \in Threads : Return(t)

SpecTrig == Init /\ [][NextTrig]_vars

\* A call in progress goes on: the thread that executes it takes its next
\* step (each remote call and each local statement returns or raises).
Running(t) ==
  \/ Select(t)
  \/ \E ok \in BOOLEAN : Mark(t, ok)
  \/ \E o \in RemoteOutcomes : Push(t, o)
  \/ \E ok \in BOOLEAN : Commit(t, ok)
  \/ \E ok \in BOOLEAN : Handler(t, ok)
  \/ SyncFinish(t)
  \/ SyncRaise(t)
  \/ Return(t)

\* sync() started by the periodic timer and by the startup timer, on a local
\* store whose commits and queries can raise.
NextLive ==
  \/ \E t \in Threads, m \in Mutations : DomainWrite(t, m, TRUE)
  \/ \E t \in Threads : Tick(t)
  \/ \E t \in Threads : StartupSync(t)
  \/ \E t \in Threads : Running(t)

SpecLive == Init /\ [][NextLive]_vars /\ \A t \in Threads : WF_vars(Running(t))

\* ------------------------------------------------------------------ claims
\* C1: at most one batch started by SyncManager.sync (periodic tick, startup
\* sync or manual trigger) is in progress at any time.
C1_SingleFlight ==
  Cardinality({t \in Threads : call[t].op = "sync" /\ InBatch(t)}) <= 1

\* C2: a failed push never ends the batch.  While a batch runs, the records
\* it has pushed to the remote are exactly the selected records before the
\* current one, whatever their outcomes; when it has left the loop it has
\* pushed every selected record, each counted once as pushed or failed, and
\* (no other batch having run beside it) as many of them are synced as it
\* counted pushed and as many are failed as it counted failed: all of them
\* when every remote call failed.
C2_FailureIsolation ==
  \A t \in Threads :
    /\ pc[t] \in {"mark", "push"} =>
         hist[t].attempted = {items[t][j] : j \in 1..(idx[t] - 1)}
    /\ pc[t] = "commit" =>
         hist[t].attempted = {items[t][j] : j \in 1..idx[t]}
    /\ (pc[t] = "c_pending" \/ (pc[t] = "done" /\ call[t].op = "push")) =>
         /\ hist[t].attempted = {items[t][j] : j \in 1..Len(items[t])}
         /\ stats[t].pushed + stats[t].failed = Len(items[t])
         /\ ~hist[t].overlap =>
              /\ Cardinality({j \in 1..Len(items[t]) : queue[items[t][j]].status = "synced"})
                   = stats[t].pushed
              /\ Cardinality({j \in 1..Len(items[t]) : queue[items[t][j]].status = "failed"})
                   = stats[t].failed

\* C2 witness: a finished batch whose first record failed and whose second
\* record was pushed after it and is synced.
C2_LaterRecordSynced ==
  \E t \in Threads :
    /\ pc[t] = "done" /\ call[t].op = "push" /\ Len(items[t]) = 2
    /\ queue[items[t][1]].status = "failed"
    /\ queue[items[t][2]].status = "synced"
    /\ hist[t].attempted = {items[t][1], items[t][2]}

\* C3: a capture made while the engine is enabled adds exactly one row, which
\* is pending and carries the given table, record id, operation and payload,
\* and changes no other row; and a pending row stays in the table, pending and
\* unchanged, in every step of every operation (a restart that disables the
\* engine included) unless a batch in progress has selected it.
C3_CaptureAppendsPending ==
  [][/\ \A m \in Mutations, c \in BOOLEAN :
          (enabled /\ DomainWrite("worker", m, c)) =>
            /\ DOMAIN queue \subseteq DOMAIN queue'
            /\ Cardinality(DOMAIN queue' \ DOMAIN queue) = 1
            /\ \A i \in DOMAIN queue : queue'[i] = queue[i]
            /\ \A i \in DOMAIN queue' \ DOMAIN queue :
                 /\ queue'[i].status = "pending"
                 /\ queue'[i].table_name = m.table_name
                 /\ queue'[i].record_id = m.record_id
                 /\ queue'[i].operation = m.operation
                 /\ queue'[i].data = m.data
     /\ \A i \in DOMAIN queue :
          (/\ queue[i].status = "pending"
           /\ ~\E t \in Threads : InBatch(t) /\ i \in Range(items[t])) =>
            (i \in DOMAIN queue' /\ queue'[i] = queue[i])
    ]_vars

\* C3 witness: the engine is disabled and the table holds a pending record,
\* captured while the engine was enabled.
C3_PendingWhileDisabled ==
  /\ ~enabled
  /\ \E i \in DOMAIN queue : queue[i].status = "pending" /\ queue[i].data = "Alice"

\* C4: every ChangeRecord belongs to a domain mutation that committed: no
\* record is left by a domain transaction that was rolled back or lost.
C4_CaptureAtomic == unbacked = 0

\* C5: a batch selects exactly min(P, L) of the P pending records; at the
\* step that completes it, when no other batch has run beside it, every record
\* it selected is synced or failed and every other record that was pending at
\* its selection is still pending.
C5_BatchMovesMin ==
  [][\A t \in Threads :
       /\ (pc[t] = "select" /\ pc'[t] # "select" /\ enabled) =>
            LET P == {i \in DOMAIN queue : queue[i].status = "pending"}
                L == call[t].limit
            IN /\ {items'[t][j] : j \in 1..Len(items'[t])} \subseteq P
               /\ Cardinality({items'[t][j] : j \in 1..Len(items'[t])}) = Len(items'[t])
               /\ Len(items'[t]) = IF Cardinality(P) < L THEN Cardinality(P) ELSE L
               /\ hist'[t].selP = P
       /\ (/\ pc[t] # "done" /\ pc'[t] = "done"
           /\ call'[t].op = "push" /\ ~hist'[t].overlap) =>
            /\ \A j \in 1..Len(items'[t]) :
                 queue'[items'[t][j]].status \in {"synced", "failed"}
            /\ \A i \in hist'[t].selP \ {items'[t][j] : j \in 1..Len(items'[t])} :
                 queue'[i].status = "pending"
    ]_vars

\* C5 witness: a batch with limit 1 has run alone to completion on a queue of
\* two pending records: one is out of pending, the other still pending.
C5_LimitLeavesRest ==
  \E t \in Threads :
    /\ pc[t] = "done" /\ call[t].op = "push" /\ ~hist[t].overlap
    /\ Len(items[t]) = 1 /\ Cardinality(hist[t].selP) = 2
    /\ \E i \in hist[t].selP : queue[i].status = "pending"

\* C6: no step changes the status of a record that is failed or synced.
C6_Terminal ==
  [][\A i \in DOMAIN queue :
       queue[i].status \in {"failed", "synced"} =>
         (i \in DOMAIN queue' /\ queue'[i].status = queue[i].status)]_vars

C8_FailureCountsRetry ==
  [][\A t \in Threads :
       /\ \A o \in RemoteOutcomes :
            (/\ Push(t, o)
             /\ \/ o = "raise"
                \/ o = "empty" /\ queue[CurId(t)].operation # "delete") =>
              (~upd'[t].ok /\ upd'[t].retry_count = queue[CurId(t)].retry_count + 1)
       /\ (pc[t] = "commit" /\ pc'[t] # "commit" /\ ~upd[t].ok) =>
            /\ queue'[CurId(t)].status = "failed"
            /\ queue'[CurId(t)].retry_count = upd[t].retry_count
    ]_vars

\* C8 witness: a batch has finished and left a record failed with retry_count 1.
C8_FailedOnce ==
  \E t \in Threads :
    /\ pc[t] = "done" /\ call[t].op = "push" /\ stats[t].failed = 1
    /\ \E j \in 1..Len(items[t]) :
         queue[items[t][j]].status = "failed" /\ queue[items[t][j]].retry_count = 1

\* C9: every failed record has an error_message.
C9_ErrorRecorded ==
  \A i \in DOMAIN queue : queue[i].status = "failed" => queue[i].error_message # NULL

\* C10: the total a status query returns is a number of rows the table held
\* at some moment of the query (as it is when all four counts are taken from
\* one state of the table).
C10_SnapshotTotal ==
  \A t \in Threads :
    (pc[t] = "done" /\ call[t].op \in {"status", "sync"} /\ enabled) =>
      /\ span[t][1] <= StatusResult(t).total
      /\ StatusResult(t).total <= span[t][2]

\* C11: the notification that ends a batch of sync() carries, as pending,
\* syncing, failed and synced, the number of rows of the table in each status
\* at that moment.
C11_SignalCounts ==
  [][\A t \in Threads :
       (pc[t] = "c_pending" /\ pc'[t] = "done" /\ call[t].op = "sync") =>
         /\ Signal(t)'.pending = Cardinality({i \in DOMAIN queue' : queue'[i].status = "pending"})
         /\ Signal(t)'.syncing = Cardinality({i \in DOMAIN queue' : queue'[i].status = "syncing"})
         /\ Signal(t)'.failed = Cardinality({i \in DOMAIN queue' : queue'[i].status = "failed"})
         /\ Signal(t)'.synced = Cardinality({i \in DOMAIN queue' : queue'[i].status = "synced"})
    ]_vars

\* C12: a batch that finds no pending record (the engine being enabled) ends
\* at once with statistics {pushed 0, failed 0, skipped 0}, has selected and
\* pushed nothing, and leaves the table as it is.
C12_IdempotentWithoutPending ==
  [][\A t \in Threads :
       (/\ pc[t] = "select" /\ pc'[t] # "select" /\ enabled
        /\ \A i \in DOMAIN queue : queue[i].status # "pending") =>
         /\ queue' = queue
         /\ items'[t] = <<>>
         /\ hist'[t].attempted = {}
         /\ stats'[t] = [pushed |-> 0, failed |-> 0, skipped |-> 0]
         /\ pc'[t] = IF call[t].op = "push" THEN "done" ELSE "c_pending"
    ]_vars

\* C12 witness: a direct call has returned zero statistics on a table whose
\* two records are both synced.
C12_SecondCallZero ==
  \E t \in Threads :
    /\ pc[t] = "done" /\ call[t].op = "push" /\ enabled
    /\ BatchResult(t) = [pushed |-> 0, failed |-> 0, skipped |-> 0]
    /\ items[t] = <<>>
    /\ Cardinality(DOMAIN queue) = 2
    /\ \A i \in DOMAIN queue : queue[i].status = "synced"

\* C13: no record is pushed to the remote by two batch executions.
C13_SinglePush ==
  \A t, u \in Threads :
    t # u => hist[t].attempted \cap hist[u].attempted = {}

\* C20: a batch selects the pending records with the smallest ids, in
\* ascending order of id (the order in which it pushes them).
C20_OldestFirst ==
  [][\A t \in Threads :
       (pc[t] = "select" /\ pc'[t] # "select" /\ enabled) =>
         LET P == {i \in DOMAIN queue : queue[i].status = "pending"}
             n == Len(items'[t])
         IN /\ \A j \in 1..(n - 1) : items'[t][j] < items'[t][j + 1]
            /\ \A i \in P : (\A j \in 1..n : items'[t][j] # i) =>
                              \A j \in 1..n : items'[t][j] < i
    ]_vars

\* C14: a record left syncing by a crash is pushed again after the restart:
\* when a batch of sync() has gone through its records and no other batch is
\* in progress, no record is syncing.
C14_RedeliveredAfterRestart ==
  \A t \in Threads :
    (pc[t] = "c_pending" /\ \A u \in Threads \ {t} : ~InBatch(u)) =>
      \A i \in DOMAIN queue : queue[i].status # "syncing"

\* C15: a remote call that raises does not leave the batch: the loop goes on
\* to commit the record as failed, counts it in the failed statistics and
\* changes nothing else; the batch then goes to its next record or returns
\* its result, and sync() ends by resetting is_syncing.
C15_RemoteFailureContained ==
  [][\A t \in Threads :
       /\ Push(t, "raise") =>
            /\ pc'[t] = "commit" /\ ~upd'[t].ok
            /\ stats'[t].failed = stats[t].failed + 1
            /\ stats'[t].pushed = stats[t].pushed
            /\ queue' = queue /\ is_syncing' = is_syncing
       /\ (pc[t] = "commit" /\ pc'[t] # "commit" /\ ~upd[t].ok) =>
            /\ queue'[CurId(t)].status = "failed"
            /\ pc'[t] = IF idx[t] < Len(items[t]) THEN "mark"
                        ELSE IF call[t].op = "push" THEN "done" ELSE "c_pending"
       /\ (pc[t] = "c_pending" /\ pc'[t] # "c_pending") =>
            (pc'[t] = "done" /\ ~is_syncing')
    ]_vars

\* C15 witness: a direct call has returned with a failed count after the
\* remote delete of one of its records raised (a delete fails in no other way).
C15_ReturnedAfterRaise ==
  \E t \in Threads :
    /\ pc[t] = "done" /\ call[t].op = "push" /\ BatchResult(t).failed >= 1
    /\ \E j \in 1..Len(items[t]) :
         /\ queue[items[t][j]].operation = "delete"
         /\ queue[items[t][j]].status = "failed"

\* C16: a capture made while the engine is disabled changes nothing: the
\* table keeps exactly its rows.
C16_DisabledCaptureNoop ==
  [][\A m \in Mutations, c \in BOOLEAN :
       (~enabled /\ DomainWrite("worker", m, c)) => UNCHANGED vars]_vars

\* C16 witness: the engine is disabled, a capture can be made, and the table
\* still holds only the record captured before the engine was disabled.
C16_DisabledWithRoom ==
  /\ ~enabled /\ pc["worker"] = "idle"
  /\ DOMAIN queue = {1} /\ 1 < MaxQueue

\* C17: a periodic tick that arrives while a batch of sync() is running is
\* dropped: the tick changes nothing.
C17_TickDropped ==
  [][(/\ Tick("main")
      /\ \E u \in Threads : call[u].op = "sync" /\ pc[u] \in BatchPcs \cup {"c_pending"})
       => UNCHANGED vars]_vars

\* C18: stop() changes nothing but the timer; once the timer is stopped it
\* stays stopped and the timer thread starts no batch except the startup
\* sync; a batch that was in flight at stop() can always take its next step,
\* and when it has gone through its records (no other batch having run beside
\* it) each of them is synced or failed.
C18_StopLeavesBatch ==
  /\ [][/\ (timer /\ ~timer') =>
             UNCHANGED <<enabled, startup, is_syncing, queue, pc, call, items, idx, upd, stats>>
        /\ ~timer => ~timer'
        /\ (~timer /\ pc["main"] = "idle" /\ pc'["main"] # "idle") => (startup /\ ~startup')
        /\ \A t \in Threads :
             (/\ InBatch(t) /\ ~InBatch(t)'
              /\ hist[t].stopped /\ ~hist[t].overlap) =>
               \A j \in 1..Len(items[t]) : queue'[items[t][j]].status \in {"synced", "failed"}
       ]_vars
  /\ [](\A t \in Threads :
          (InBatch(t) /\ hist[t].stopped) =>
            ENABLED (Select(t) \/ Mark(t, TRUE) \/ Commit(t, TRUE)
                       \/ \E o \in RemoteOutcomes : Push(t, o)))

\* C18 witness: the timer is stopped, and a batch that was in flight when
\* stop() was called has gone through its record, which is synced.
C18_BatchCompletedAfterStop ==
  \E t \in Threads :
    /\ ~timer /\ enabled
    /\ pc[t] = "c_pending" /\ hist[t].stopped
    /\ Len(items[t]) >= 1
    /\ \A j \in 1..Len(items[t]) : queue[items[t][j]].status = "synced"

\* C19: a sweep with age d deletes exactly the rows that are synced and whose
\* synced_at lies more than d before now, and changes no other row; no other
\* operation deletes a row, and every row that is deleted is synced.
C19_OnlySweepDeletes ==
  [][/\ \A d \in 0..MaxAge :
          Sweep("worker", d) =>
            /\ DOMAIN queue' =
                 {i \in DOMAIN queue :
                    ~(/\ queue[i].status = "synced"
                      /\ queue[i].synced_at # NoTime
                      /\ now - queue[i].synced_at > d)}
            /\ \A i \in DOMAIN queue' : queue'[i] = queue[i]
     /\ (\E i \in DOMAIN queue : i \notin DOMAIN queue') =>
          \E d \in 0..MaxAge : Sweep("worker", d)
     /\ \A i \in DOMAIN queue : i \notin DOMAIN queue' => queue[i].status = "synced"
    ]_vars

\* C19 witness: a sweep has deleted the older synced record 1 and kept the
\* younger synced record 2.
C19_SweptOlderOnly ==
  /\ DOMAIN queue = {2}
  /\ queue[2].status = "synced" /\ queue[2].synced_at = now

\* C21: the captured content of a record never changes: every step of every
\* operation leaves table_name, record_id, operation, data and created_at of
\* every row as they were; a step of a batch changes no row but the one it is
\* at, and of that row only status, retry_count, error_message and synced_at.
C21_ContentImmutable ==
  [][/\ \A i \in DOMAIN queue \cap DOMAIN queue' :
          /\ queue'[i].table_name = queue[i].table_name
          /\ queue'[i].record_id = queue[i].record_id
          /\ queue'[i].operation = queue[i].operation
          /\ queue'[i].data = queue[i].data
          /\ queue'[i].created_at = queue[i].created_at
     /\ \A t \in Threads :
          (pc[t] \in BatchPcs /\ pc'[t] # pc[t] /\ Len(items[t]) > 0) =>
            \A i \in DOMAIN queue \cap DOMAIN queue' :
              i # CurId(t) => queue'[i] = queue[i]
    ]_vars

\* C21 witness: the except branch has written status, retry_count and
\* error_message of a record captured earlier, whose content is as captured.
C21_FailedKeepsContent ==
  \E i \in DOMAIN queue :
    /\ queue[i].status = "failed" /\ queue[i].error_message # NULL
    /\ queue[i].retry_count = 1
    /\ queue[i].data = "Alice" /\ queue[i].operation = "create"
    /\ queue[i].created_at < now

\* C22: every record is created pending, and every status change of a record
\* is pending -> syncing, syncing -> synced or syncing -> failed.
C22_StatusMachine ==
  [][/\ \A i \in DOMAIN queue' \ DOMAIN queue : queue'[i].status = "pending"
     /\ \A i \in DOMAIN queue \cap DOMAIN queue' :
          queue'[i].status # queue[i].status =>
            <<queue[i].status, queue'[i].status>> \in
              {<<"pending", "syncing">>, <<"syncing", "synced">>, <<"syncing", "failed">>}
    ]_vars

\* C23: synced_at is set exactly once: after every step it is set for every
\* synced record and null for every other record, and a synced_at that is
\* set is never changed.
C23_SyncedAtOnce ==
  [][/\ \A i \in DOMAIN queue' :
          (queue'[i].status = "synced") <=> (queue'[i].synced_at # NoTime)
     /\ \A i \in DOMAIN queue \cap DOMAIN queue' :
          queue[i].synced_at # NoTime => queue'[i].synced_at = queue[i].synced_at
    ]_vars

\* C24: a newly captured record gets an id greater than every id given to a
\* record before it, the ids of deleted records included.
C24_IdNeverReused ==
  [][\A i \in DOMAIN queue' \ DOMAIN queue : i > assigned]_vars

\* C26: is_syncing is true exactly when some batch started by sync() is
\* executing.
C26_FlagAccurate ==
  is_syncing <=>
    \E t \in Threads : call[t].op = "sync" /\ pc[t] \in BatchPcs \cup {"c_pending"}

\* C27: whenever no batch is executing, no record is syncing.
C27_NoSyncingAtRest ==
  (\A t \in Threads : pc[t] \notin BatchPcs) =>
    \A i \in DOMAIN queue : queue[i].status # "syncing"

\* C29: when a batch leaves push_pending_changes, pushed is the number of its
\* selected records that are synced, failed the number that are failed,
\* pushed + failed the number that are no longer pending, and skipped is 0.
C29_StatsAccount ==
  [][\A t \in Threads :
       (pc[t] \in BatchPcs /\ pc'[t] \notin BatchPcs /\ call'[t].op # "raised") =>
         LET sel == Range(items[t])
         IN /\ stats'[t].pushed = Cardinality({i \in sel : queue'[i].status = "synced"})
            /\ stats'[t].failed = Cardinality({i \in sel : queue'[i].status = "failed"})
            /\ stats'[t].pushed + stats'[t].failed
                 = Cardinality({i \in sel : queue'[i].status # "pending"})
            /\ stats'[t].skipped = 0
    ]_vars

\* C30: once stop() has been called (the engine is enabled and its periodic
\* timer is not active), the timer thread starts no batch.
C30_NoTimerBatchAfterStop ==
  [][(enabled /\ ~timer /\ pc["main"] = "idle") => pc'["main"] # "select"]_vars

\* C25: while the engine is disabled, the startup sync, a periodic tick and
\* sync_now start nothing and change no record, statistic or flag; a direct
\* push_pending_changes returns at once with statistics {pushed 0, failed 0,
\* skipped 0}, having selected and pushed nothing and changed no record; and
\* no call is inside a batch or has emitted a notification.
C25_DisabledNoBatch ==
  /\ [][~enabled =>
          /\ (Tick("main") \/ StartupSync("main") \/ SyncNow("worker")) =>
               UNCHANGED <<is_syncing, queue, pc, call, items, idx, upd, stats, cnt, hist>>
          /\ \A limit \in 1..MaxLimit :
               PushCall("worker", limit) => (queue' = queue /\ is_syncing' = is_syncing)
          /\ \A t \in Threads :
               Select(t) =>
                 /\ pc'[t] = "done"
                 /\ BatchResult(t)' = [pushed |-> 0, failed |-> 0, skipped |-> 0]
                 /\ queue' = queue
                 /\ items'[t] = items[t] /\ hist'[t].attempted = {}
       ]_vars
  /\ [](~enabled =>
          \A t \in Threads :
            /\ pc[t] \notin {"mark", "push", "commit", "handler", "c_pending"}
            /\ ~Emitted(t))

\* C25 witness: the engine is disabled and holds a pending record; the
\* startup sync has fired, and a direct push_pending_changes has returned
\* zero statistics.
C25_DisabledPushReturnedZero ==
  /\ ~enabled /\ ~startup
  /\ \E i \in DOMAIN queue : queue[i].status = "pending"
  /\ pc["worker"] = "done" /\ call["worker"].op = "push"
  /\ BatchResult("worker") = [pushed |-> 0, failed |-> 0, skipped |-> 0]

\* C28: every sync() that has started a batch eventually returns, and
\* is_syncing is false when it does; when an exception leaves
\* push_pending_changes or the status query, sync() returns without a
\* notification and with is_syncing reset; a flag that is set is eventually
\* reset, so later ticks are not dropped for good.
C28_SyncReturns ==
  /\ \A t \in Threads :
       (call[t].op = "sync" /\ pc[t] \in BatchPcs \cup {"c_pending"})
         ~> (pc[t] = "done" /\ ~is_syncing)
  /\ is_syncing ~> ~is_syncing
  /\ [][\A t \in Threads : SyncRaise(t) => (~Emitted(t)' /\ ~is_syncing')]_vars

\* C28 witness: sync() has returned after an exception of the status query,
\* with no notification, is_syncing reset and its record failed.
C28_ReturnedAfterRaise ==
  \E t \in Threads :
    /\ pc[t] = "done" /\ call[t].op = "raised" /\ ~Emitted(t) /\ ~is_syncing
    /\ \E i \in DOMAIN queue : queue[i].status = "failed"

====
